---- MODULE Spec2Model ----
(***************************************************************************)
(* Model of src/src/method-dispatch.c: the resolver method_rec, the lookup *)
(* entry point method_, and the signature builder / invoker method_call_.  *)
(*                                                                         *)
(* Two specifications share the module:                                    *)
(*   SpecRec  method_(generic, signature, error) with the table walk of    *)
(*            method_rec executed frame by frame (one action per probe,    *)
(*            call and return);                                            *)
(*   Spec     method_call_(call, generic, envir): one action per iteration *)
(*            of the argument loop, the lookup, the evaluation of the      *)
(*            rebuilt call, and the behaviour of the invoked method body   *)
(*            (argument reads, a nested super call, return).               *)
(***************************************************************************)
EXTENDS Naturals, Integers, Sequences, FiniteSets, TLC

(***************************************************************************)
(* Bounds                                                                  *)
(***************************************************************************)
\* number of methods registered in a table drawn by Init
MaxMethods == 2
\* number of super calls nested inside the first call of method_call_
MaxNesting == 2

(***************************************************************************)
(* Class names and SEXP values                                             *)
(***************************************************************************)
\* the class hierarchy A <: X of the values that are dispatched on
Classes == {"A", "X"}
ANY_sym == "ANY"
MISSING_str == "MISSING"
WalkKeys == Classes \cup {ANY_sym}
TableKeys == Classes \cup {ANY_sym, MISSING_str}

KeyIdx(k) ==
  CASE k = "A" -> 1
    [] k = "X" -> 2
    [] k = ANY_sym -> 3
    [] OTHER -> 4

R_NilValue == [type |-> "NILSXP", id |-> 0]
R_UnboundValue == [type |-> "UNBOUND", id |-> 0]
ENVSXP(n) == [type |-> "ENVSXP", id |-> n]
CLOSXP(n) == [type |-> "CLOSXP", id |-> n]
TYPEOF(v) == v.type

(***************************************************************************)
(* Method tables: a heap of environments.  Environment 0 is the root       *)
(* (the generic's @methods); environment KeyIdx(k) is the child bound to   *)
(* key k in the root.  A registration is a key path; the method registered *)
(* under path <<k>> has id KeyIdx(k), the one under <<k, l>> has id        *)
(* 10 * KeyIdx(k) + KeyIdx(l).                                             *)
(***************************************************************************)
RootEnv == 0
EnvIds == {RootEnv} \cup {KeyIdx(k) : k \in TableKeys}

MethodId(path) ==
  IF Len(path) = 1 THEN KeyIdx(path[1])
  ELSE 10 * KeyIdx(path[1]) + KeyIdx(path[2])

\* the environments after the methods `regs` were registered and the
\* bindings `backs` (env, key) were pointed back at the root environment
TableOf(regs, backs) ==
  [n \in EnvIds |->
    [k \in TableKeys |->
      IF <<n, k>> \in backs THEN ENVSXP(RootEnv)
      ELSE IF n = RootEnv
        THEN IF <<k>> \in regs THEN CLOSXP(MethodId(<<k>>))
             ELSE IF \E r \in regs : Len(r) = 2 /\ r[1] = k
                    THEN ENVSXP(KeyIdx(k))
                    ELSE R_UnboundValue
        ELSE IF \E r \in regs : Len(r) = 2 /\ KeyIdx(r[1]) = n /\ r[2] = k
               THEN CLOSXP(10 * n + KeyIdx(k))
               ELSE R_UnboundValue]]

Paths(keys, d) ==
  IF d = 1 THEN {<<k>> : k \in keys}
  ELSE {<<k, l>> : k \in keys, l \in keys}

SmallSubsets(S, n) == {T \in SUBSET S : Cardinality(T) <= n}

\* class lists: the sequences of distinct class names
ClassLists ==
  {<<>>} \cup {<<c>> : c \in Classes}
         \cup {l \in {<<c, d>> : c \in Classes, d \in Classes} : l[1] # l[2]}

(***************************************************************************)
(* method_rec as a function of its arguments (big step)                    *)
(***************************************************************************)
\* lines 15 and 18: 0-based element access
VECTOR_ELT(x, i) == x[i + 1]

\* variant: the class vector read from its least specific end
STRING_ELT_reversed(x, i) == x[Len(x) - i]

STRING_ELT(x, i) == x[i + 1]

Rf_findVarInFrame(envs, table, klass) ==
  IF klass \in DOMAIN envs[table] THEN envs[table][klass] ELSE R_UnboundValue

RECURSIVE method_rec(_, _, _, _)
RECURSIVE method_rec_loop(_, _, _, _, _)

\* lines 19-22 and 29-32: look the key up, recurse into an environment
ProbeVal(envs, table, signature, signature_itr, klass) ==
  LET val == Rf_findVarInFrame(envs, table, klass)
  IN  IF TYPEOF(val) = "ENVSXP"
        THEN method_rec(envs, val.id, signature, signature_itr + 1)
        ELSE val

\* lines 17-37: the loop over classes from index i (1-based), then ANY
method_rec_loop(envs, table, signature, signature_itr, i) ==
  LET classes == VECTOR_ELT(signature, signature_itr)
  IN  IF i <= Len(classes)
        THEN LET val == ProbeVal(envs, table, signature, signature_itr,
                                 STRING_ELT(classes, i - 1))
             IN  IF TYPEOF(val) = "CLOSXP" THEN val
                 ELSE method_rec_loop(envs, table, signature, signature_itr, i + 1)
        ELSE LET val == ProbeVal(envs, table, signature, signature_itr, ANY_sym)
             IN  IF TYPEOF(val) = "CLOSXP" THEN val ELSE R_NilValue

method_rec(envs, table, signature, signature_itr) ==
  IF signature_itr >= Len(signature) THEN R_NilValue
  ELSE method_rec_loop(envs, table, signature, signature_itr, 1)

(***************************************************************************)
(* method_ as a function of its arguments (big step)                       *)
(***************************************************************************)
Rf_inherits(generic, what) == generic.cls = what

\* lines 68-73: what method_ does with the walk's result m
\* lines 40-54: the reporter is called and control never comes back
R7_method_lookup_error == [outcome |-> "method_lookup_error", val |-> R_NilValue]

\* variant: the walk's result is returned whatever error is
MethodExit_ignoring_error(m, error) ==
  [outcome |-> "return", val |-> m]

MethodExit(m, error) ==
  IF error /\ m = R_NilValue
    THEN R7_method_lookup_error
    ELSE [outcome |-> "return", val |-> m]

\* lines 57-64: the checks before the walk; "walk" when it goes ahead
MethodEntry(generic) ==
  IF ~Rf_inherits(generic, "R7_generic")
    THEN [outcome |-> "return", val |-> R_NilValue]
    ELSE IF generic.methods # "ENVSXP"
      THEN [outcome |-> "Rf_error", val |-> R_NilValue]
      ELSE [outcome |-> "walk", val |-> R_NilValue]

method_(generic, envs, signature, error) ==
  LET e == MethodEntry(generic)
  IN  IF e.outcome # "walk" THEN e
      ELSE MethodExit(method_rec(envs, RootEnv, signature, 0), error)

(***************************************************************************)
(* Values, super-shims and promises                                        *)
(***************************************************************************)
\* an object whose class is c
Obj(c) == [type |-> "S4SXP", cls |-> c]
Values == {Obj(c) : c \in Classes}

\* obj_dispatch: the class list of a value, most specific class first
ClassChain(c) == IF c = "A" THEN <<"A", "X">> ELSE <<c>>

\* lines 76-89: the collaborator obj_dispatch is called on the object
R7_obj_dispatch(object) == ClassChain(object.cls)

\* the part of class list cl after the first occurrence of class c
TailAfter(cl, c) ==
  IF \E n \in 1..Len(cl) : cl[n] = c
    THEN LET n == CHOOSE n \in 1..Len(cl) : cl[n] = c /\ \A o \in 1..(n - 1) : cl[o] # c
         IN  SubSeq(cl, n + 1, Len(cl))
    ELSE <<>>

\* class list cl without the first occurrence of class c
Without(cl, c) ==
  IF \E n \in 1..Len(cl) : cl[n] = c
    THEN LET n == CHOOSE n \in 1..Len(cl) : cl[n] = c /\ \A o \in 1..(n - 1) : cl[o] # c
         IN  SubSeq(cl, 1, n - 1) \o SubSeq(cl, n + 1, Len(cl))
    ELSE cl

\* the super-shim: field 0 the value, field 1 the class list to dispatch on
Shim(v, cl) == [type |-> "VECSXP", cls |-> "R7_super", val |-> v, cl |-> cl]

\* super(value, c): the shim of a value relative to class c
Super(v, c) == Shim(v, TailAfter(R7_obj_dispatch(v), c))

\* the expressions of argument thunks: the missing marker, an expression
\* that yields value v, the formal of promise p of the calling method, and
\* super(<formal of promise p>, c)
R_MissingArg == [k |-> "missing", v |-> R_NilValue, p |-> 0, c |-> ""]
ConstCode(v) == [k |-> "const", v |-> v, p |-> 0, c |-> ""]
SymCode(p) == [k |-> "sym", v |-> R_NilValue, p |-> p, c |-> ""]
SuperCode(p, c) == [k |-> "super", v |-> R_NilValue, p |-> p, c |-> c]

\* a promise not yet forced; forces lists who forced it ("core" or "host")
Promise(code) == [code |-> code, value |-> R_UnboundValue, forces |-> <<>>]
PRCODE(heap, p) == heap[p].code
PRVALUE(heap, p) == heap[p].value
SET_PRVALUE(heap, p, v) == [heap EXCEPT ![p].value = v]

\* line 128: Rf_eval of a promise: its value if it has one, else the value of
\* its expression, which is stored in the promise (forcing it)
RECURSIVE Rf_eval(_, _, _)
Rf_eval(heap, p, who) ==
  IF PRVALUE(heap, p) # R_UnboundValue
    THEN [heap |-> heap, val |-> PRVALUE(heap, p)]
    ELSE LET code == PRCODE(heap, p)
             r == IF code.k = "const" THEN [heap |-> heap, val |-> code.v]
                  ELSE IF code.k = "sym" THEN Rf_eval(heap, code.p, who)
                  ELSE LET q == Rf_eval(heap, code.p, who)
                       IN  [heap |-> q.heap, val |-> Super(q.val, code.c)]
         IN  [heap |-> [r.heap EXCEPT ![p].value = r.val,
                                      ![p].forces = Append(@, who)],
              val |-> r.val]

\* the formals of the generic: x, y, z; the first n_dispatch are dispatched on
formals == <<"x", "y", "z">>
Rf_xlength(x) == Len(x)

(***************************************************************************)
(* State                                                                   *)
(***************************************************************************)
VARIABLES
  generic,   \* the value passed as generic: class, type of @methods, n_dispatch
  tbl,       \* the environments of the method table
  \* method_(generic, signature, error_) with the walk run frame by frame
  sig,       \* signature
  error_,    \* error_
  rpc,       \* position in method_: "start", "walk", "exit", "done"
  stack,     \* the active calls of method_rec, innermost last
  ret,       \* the value the last finished call of method_rec returned
  probes,    \* every Rf_findVarInFrame made so far: itr, table, key, val
  calls,     \* every call of method_rec made so far: table, itr
  result,    \* how method_ ended: outcome and value
  \* method_call_(call, generic, envir), nested through super calls
  prom,      \* the promises: expression, value slot, who forced it
  frames,    \* the calls of method_call_, outermost first
  cur,       \* the running call of method_call_ (0: none)
  err,       \* the error that ended the run, "none" if none
  lastRead   \* the last read of a formal by a method body: frame, pos, val

recvars == <<sig, error_, rpc, stack, ret, probes, calls, result>>
callvars == <<prom, frames, cur, err, lastRead>>

NoRead == [frame |-> 0, pos |-> 0, val |-> R_NilValue]

\* no call of method_call_ is under way
NoCall ==
  /\ prom = <<>>
  /\ frames = <<>>
  /\ cur = 0
  /\ err = "none"
  /\ lastRead = NoRead

\* no call of method_ from outside method_call_ is under way
NoWalk ==
  /\ sig = <<>>
  /\ error_ = TRUE
  /\ rpc = "idle"
  /\ stack = <<>>
  /\ ret = R_NilValue
  /\ probes = <<>>
  /\ calls = <<>>
  /\ result = [outcome |-> "none", val |-> R_NilValue]

(***************************************************************************)
(* SpecRec: method_ with method_rec run frame by frame                     *)
(***************************************************************************)
Generics ==
  {[cls |-> "R7_generic", methods |-> "ENVSXP", n_dispatch |-> 2],
   [cls |-> "R7_generic", methods |-> "NILSXP", n_dispatch |-> 2],
   [cls |-> "function", methods |-> "NILSXP", n_dispatch |-> 0]}

\* tables of depth 1 and 2, tables with a method bound above the leaves
\* (a path of length 1 beside paths of length 2), and tables with a binding
\* that refers back to the root
WalkRegs == SmallSubsets(Paths(WalkKeys, 1) \cup Paths(WalkKeys, 2), MaxMethods)
WalkBacks == {{}} \cup {{<<KeyIdx(k), k>>} : k \in WalkKeys} \cup {{<<RootEnv, ANY_sym>>}}
WalkTables == {TableOf(r, b) : r \in WalkRegs, b \in WalkBacks}
WalkSignatures ==
  {<<>>} \cup {<<c>> : c \in ClassLists} \cup {<<c, d>> : c \in ClassLists, d \in ClassLists}

NoResult == [outcome |-> "none", val |-> R_NilValue]

InitRec ==
  /\ generic \in Generics
  /\ tbl \in IF generic.methods = "ENVSXP" THEN WalkTables ELSE {TableOf({}, {})}
  /\ sig \in IF generic.methods = "ENVSXP" THEN WalkSignatures ELSE {<<<<"A">>>>}
  /\ error_ \in BOOLEAN
  /\ rpc = "start"
  /\ stack = <<>>
  /\ ret = R_NilValue
  /\ probes = <<>>
  /\ calls = <<>>
  /\ result = NoResult
  /\ NoCall

Top == stack[Len(stack)]
Frame(table, itr) == [table |-> table, itr |-> itr, i |-> 0, pc |-> "entry"]

\* variant: a method counts only when found at the last signature index
IsMethod_at_leaf_depth_only(val) ==
  TYPEOF(val) = "CLOSXP" /\ Top.itr = Len(sig) - 1

\* lines 23 and 33: the value is a method and is returned
IsMethod(val) == TYPEOF(val) = "CLOSXP"

\* variant: the recursive call is given the index of its caller
NextItr_unchanged(itr) == itr

\* lines 21 and 31: the index the recursive call is given
NextItr(itr) == itr + 1

\* a call of method_rec returns val: pop its frame
Return(val) ==
  /\ stack' = SubSeq(stack, 1, Len(stack) - 1)
  /\ ret' = val
  /\ rpc' = IF Len(stack) = 1 THEN "exit" ELSE rpc

\* the innermost frame moves on to the next class
NextClass ==
  /\ stack' = [stack EXCEPT ![Len(stack)] = [@ EXCEPT !.i = @ + 1, !.pc = "loop"]]
  /\ UNCHANGED <<ret, rpc>>

\* method_rec is called on the value found: push its frame
Call(val, after) ==
  /\ stack' = Append([stack EXCEPT ![Len(stack)] = [@ EXCEPT !.pc = after]],
                     Frame(val.id, NextItr(Top.itr)))
  /\ calls' = Append(calls, [table |-> val.id, itr |-> NextItr(Top.itr)])
  /\ UNCHANGED <<ret, rpc>>

\* lines 57-66: method_ up to the first call of method_rec
MethodStart ==
  /\ rpc = "start"
  /\ LET e == MethodEntry(generic)
     IN  IF e.outcome = "walk"
           THEN /\ rpc' = "walk"
                /\ stack' = <<Frame(RootEnv, 0)>>
                /\ calls' = <<[table |-> RootEnv, itr |-> 0]>>
                /\ UNCHANGED result
           ELSE /\ rpc' = "done"
                /\ result' = e
                /\ UNCHANGED <<stack, calls>>
  /\ UNCHANGED <<callvars, generic, tbl, sig, error_, ret, probes>>

\* lines 11-15: the bound check on entry
RecEnter ==
  /\ rpc = "walk" /\ Top.pc = "entry"
  /\ IF Top.itr >= Len(sig)
       THEN Return(R_NilValue)
       ELSE /\ stack' = [stack EXCEPT ![Len(stack)] = [@ EXCEPT !.pc = "loop"]]
            /\ UNCHANGED <<ret, rpc>>
  /\ UNCHANGED <<callvars, generic, tbl, sig, error_, probes, calls, result>>

\* lines 17-20 and 23-25: one class of the loop, up to a recursive call
RecProbeClass ==
  /\ rpc = "walk" /\ Top.pc = "loop" /\ Top.i < Len(VECTOR_ELT(sig, Top.itr))
  /\ LET klass == STRING_ELT(VECTOR_ELT(sig, Top.itr), Top.i)
         val == Rf_findVarInFrame(tbl, Top.table, klass)
     IN  /\ probes' = Append(probes, [itr |-> Top.itr, table |-> Top.table,
                                      key |-> klass, val |-> val])
         /\ IF TYPEOF(val) = "ENVSXP"
              THEN Call(val, "loopret")
              ELSE /\ IF IsMethod(val) THEN Return(val) ELSE NextClass
                   /\ UNCHANGED calls
  /\ UNCHANGED <<callvars, generic, tbl, sig, error_, result>>

\* lines 21-25: the recursive call of the loop has returned
RecClassReturned ==
  /\ rpc = "walk" /\ Top.pc = "loopret"
  /\ IF IsMethod(ret) THEN Return(ret) ELSE NextClass
  /\ UNCHANGED <<callvars, generic, tbl, sig, error_, probes, calls, result>>

\* lines 29-30 and 33-37: the ANY fallback, up to a recursive call
RecProbeAny ==
  /\ rpc = "walk" /\ Top.pc = "loop" /\ Top.i >= Len(VECTOR_ELT(sig, Top.itr))
  /\ LET val == Rf_findVarInFrame(tbl, Top.table, ANY_sym)
     IN  /\ probes' = Append(probes, [itr |-> Top.itr, table |-> Top.table,
                                      key |-> ANY_sym, val |-> val])
         /\ IF TYPEOF(val) = "ENVSXP"
              THEN Call(val, "anyret")
              ELSE /\ Return(IF IsMethod(val) THEN val ELSE R_NilValue)
                   /\ UNCHANGED calls
  /\ UNCHANGED <<callvars, generic, tbl, sig, error_, result>>

\* lines 31-37: the recursive call of the fallback has returned
RecAnyReturned ==
  /\ rpc = "walk" /\ Top.pc = "anyret"
  /\ Return(IF IsMethod(ret) THEN ret ELSE R_NilValue)
  /\ UNCHANGED <<callvars, generic, tbl, sig, error_, probes, calls, result>>

\* lines 68-73: method_ after the walk
MethodFinish ==
  /\ rpc = "exit"
  /\ result' = MethodExit(ret, error_)
  /\ rpc' = "done"
  /\ UNCHANGED <<callvars, generic, tbl, sig, error_, stack, ret, probes, calls>>

NextRec ==
  \/ MethodStart
  \/ RecEnter
  \/ RecProbeClass
  \/ RecClassReturned
  \/ RecProbeAny
  \/ RecAnyReturned
  \/ MethodFinish

vars == <<generic, tbl, recvars, callvars>>

SpecRec == InitRec /\ [][NextRec]_vars
SpecRecFair == SpecRec /\ WF_vars(NextRec)

(***************************************************************************)
(* Spec: method_call_                                                      *)
(***************************************************************************)
CallGenerics ==
  {[cls |-> "R7_generic", methods |-> "ENVSXP", n_dispatch |-> 1],
   [cls |-> "R7_generic", methods |-> "ENVSXP", n_dispatch |-> 2],
   [cls |-> "R7_generic", methods |-> "NILSXP", n_dispatch |-> 1],
   [cls |-> "function", methods |-> "NILSXP", n_dispatch |-> 0]}

\* tables of depth n_dispatch with at most MaxMethods methods
CallTables(d) == {TableOf(r, {}) : r \in SmallSubsets(Paths(TableKeys, d), MaxMethods)}

\* lines 103-116: the state of method_call_ before its loop
NoSuper == [pos |-> 0 - 1, cls |-> ""]
NewFrame(envir, sup) ==
  [envir |-> envir, i |-> 0,
   dispatch_classes |-> [k \in 1..generic.n_dispatch |-> <<>>],
   mcall |-> <<>>, callee |-> R_NilValue,
   pc |-> "build", evald |-> <<>>,
   res |-> NoResult, m |-> R_NilValue, evaluated |-> FALSE,
   nread |-> 0, supered |-> FALSE, sup |-> sup]

Init ==
  /\ generic \in CallGenerics
  /\ tbl \in IF generic.methods = "ENVSXP"
               THEN CallTables(generic.n_dispatch)
               ELSE {TableOf({}, {})}
  /\ \E cx \in {R_MissingArg} \cup {ConstCode(v) : v \in Values},
        cy \in {R_MissingArg} \cup {ConstCode(v) : v \in Values},
        cz \in {R_MissingArg, ConstCode(Obj("X"))} :
       prom = <<Promise(cx), Promise(cy), Promise(cz)>>
  /\ frames = <<NewFrame(<<1, 2, 3>>, NoSuper)>>
  /\ cur = 1
  /\ err = "none"
  /\ lastRead = NoRead
  /\ NoWalk

F == frames[cur]
n_args == Rf_xlength(formals)

\* variant: one formal too many is taken for a dispatch argument
IsDispatchPos_off_by_one(i) == i <= generic.n_dispatch

\* line 125: the argument is one of the dispatch arguments
IsDispatchPos(i) == i < generic.n_dispatch

\* variant: the evaluated value is stored as it is, shim or not
StoredValue_keeping_shim(val) == val

\* lines 133 and 142-143: the value written into the promise's value slot
StoredValue(val) ==
  IF ~Rf_inherits(val, "R7_super") THEN val ELSE val.val

\* variant: a shim is dispatched on the class list of its value
DispatchClasses_ignoring_shim(val) ==
  IF ~Rf_inherits(val, "R7_super") THEN R7_obj_dispatch(val)
  ELSE R7_obj_dispatch(val.val)

\* lines 139 and 145: the class list the argument is dispatched on
DispatchClasses(val) ==
  IF ~Rf_inherits(val, "R7_super") THEN R7_obj_dispatch(val) ELSE val.cl

\* variants: a missing argument dispatched on ANY, or on no class at all
MissingClasses_any == <<ANY_sym>>

MissingClasses_empty == <<>>

\* line 150: the class list of an argument that was not supplied
MissingClasses == <<MISSING_str>>

\* the entries of the rebuilt call: the promise itself (lines 136, 144), the
\* bare name (line 149), the name tagged with itself (lines 154-155)
PromiseArg(p) == [k |-> "promise", p |-> p, name |-> "", tag |-> ""]
NameArg(name) == [k |-> "name", p |-> 0, name |-> name, tag |-> ""]
TaggedNameArg(name) == [k |-> "name", p |-> 0, name |-> name, tag |-> name]

\* lines 119-161: one iteration of the loop over the formals
BuildArg ==
  /\ cur > 0 /\ F.pc = "build" /\ F.i < n_args
  /\ LET i == F.i
         name == formals[i + 1]
         arg == F.envir[i + 1]
     IN  IF IsDispatchPos(i)
           THEN IF PRCODE(prom, arg) # R_MissingArg
                  THEN LET e == Rf_eval(prom, arg, "core")
                       IN  /\ prom' = SET_PRVALUE(e.heap, arg, StoredValue(e.val))
                           /\ frames' = [frames EXCEPT ![cur] =
                                [@ EXCEPT !.mcall = Append(@, PromiseArg(arg)),
                                          !.dispatch_classes[i + 1] = DispatchClasses(e.val),
                                          !.evald = Append(@, i),
                                          !.i = i + 1]]
                  ELSE /\ frames' = [frames EXCEPT ![cur] =
                            [@ EXCEPT !.mcall = Append(@, NameArg(name)),
                                      !.dispatch_classes[i + 1] = MissingClasses,
                                      !.i = i + 1]]
                       /\ UNCHANGED prom
           ELSE /\ frames' = [frames EXCEPT ![cur] =
                     [@ EXCEPT !.mcall = Append(@, TaggedNameArg(name)),
                               !.i = i + 1]]
                /\ UNCHANGED prom
  /\ UNCHANGED <<generic, tbl, recvars, cur, err, lastRead>>

\* line 164: method_(generic, dispatch_classes, TRUE) once the loop is over
Lookup ==
  /\ cur > 0 /\ F.pc = "build" /\ F.i >= n_args
  /\ LET r == method_(generic, tbl, F.dispatch_classes, TRUE)
     IN  /\ frames' = [frames EXCEPT ![cur] =
              [@ EXCEPT !.res = r, !.m = r.val,
                        !.pc = IF r.outcome = "return" THEN "call" ELSE "error"]]
         /\ err' = IF r.outcome = "return" THEN err ELSE r.outcome
  /\ UNCHANGED <<generic, tbl, recvars, prom, cur, lastRead>>

\* lines 165-168: m is put in the callee slot and the call is evaluated; the
\* evaluation of a call whose callee is no function is an error of the host
Invoke ==
  /\ cur > 0 /\ F.pc = "call"
  /\ frames' = [frames EXCEPT ![cur] =
       [@ EXCEPT !.callee = F.m, !.evaluated = TRUE,
                 !.pc = IF TYPEOF(F.m) = "CLOSXP" THEN "body" ELSE "error"]]
  /\ err' = IF TYPEOF(F.m) = "CLOSXP" THEN err ELSE "attempt to apply non-function"
  /\ UNCHANGED <<generic, tbl, recvars, prom, cur, lastRead>>

DefaultValue == [type |-> "default", cls |-> ""]

\* the method body reads its next formal: a promise entry yields the
\* promise's value; a name entry is looked up in the generic's frame, where a
\* missing argument leaves the method's default in force
MethodRead ==
  /\ cur > 0 /\ F.pc = "body" /\ F.nread < n_args /\ ~F.supered
  /\ LET j == F.nread
         entry == F.mcall[j + 1]
         p == IF entry.k = "promise" THEN entry.p ELSE F.envir[j + 1]
     IN  IF PRCODE(prom, p) = R_MissingArg
           THEN /\ lastRead' = [frame |-> cur, pos |-> j, val |-> DefaultValue]
                /\ UNCHANGED prom
           ELSE LET e == Rf_eval(prom, p, "host")
                IN  /\ lastRead' = [frame |-> cur, pos |-> j, val |-> e.val]
                    /\ prom' = e.heap
  /\ frames' = [frames EXCEPT ![cur].nread = @ + 1]
  /\ UNCHANGED <<generic, tbl, recvars, cur, err>>

KeyOfIdx(n) == CHOOSE k \in TableKeys : KeyIdx(k) = n

\* the key under which method m is registered at dispatch position j
SelectedKey(m, j) ==
  IF generic.n_dispatch = 1 THEN KeyOfIdx(m.id)
  ELSE IF j = 0 THEN KeyOfIdx(m.id \div 10) ELSE KeyOfIdx(m.id % 10)

\* the method body, before or after it has read its formals, calls the
\* generic again with super(<formal j>, C), C the class the method was
\* selected under at position j, and with its other formals
SuperCall(j) ==
  /\ cur > 0 /\ F.pc = "body" /\ F.nread \in {0, n_args} /\ ~F.supered
  /\ cur <= MaxNesting
  /\ j < generic.n_dispatch
  /\ SelectedKey(F.m, j) \in Classes
  /\ LET C == SelectedKey(F.m, j)
         base == Len(prom)
         fresh == [k \in 1..n_args |->
                     IF k = j + 1 THEN Promise(SuperCode(F.envir[k], C))
                     ELSE IF PRCODE(prom, F.envir[k]) = R_MissingArg
                       THEN Promise(R_MissingArg)
                       ELSE Promise(SymCode(F.envir[k]))]
     IN  /\ prom' = prom \o fresh
         /\ frames' = Append([frames EXCEPT ![cur].supered = TRUE],
                             NewFrame([k \in 1..n_args |-> base + k],
                                      [pos |-> j, cls |-> C]))
  /\ cur' = cur + 1
  /\ UNCHANGED <<generic, tbl, recvars, err, lastRead>>

\* lines 170-171: the method has returned and method_call_ returns its result
MethodReturn ==
  /\ cur > 0 /\ F.pc = "body" /\ (F.nread = n_args \/ F.supered)
  /\ frames' = [frames EXCEPT ![cur].pc = "returned"]
  /\ cur' = cur - 1
  /\ UNCHANGED <<generic, tbl, recvars, prom, err, lastRead>>

Next ==
  \/ BuildArg
  \/ Lookup
  \/ Invoke
  \/ MethodRead
  \/ \E j \in 0..(n_args - 1) : SuperCall(j)
  \/ MethodReturn

Spec == Init /\ [][Next]_vars

(***************************************************************************)
(* Reference notions for the walk                                          *)
(***************************************************************************)
\* the table has depth d below env n: methods are bound exactly d keys down
RECURSIVE DepthIs(_, _, _)
DepthIs(envs, n, d) ==
  \A k \in DOMAIN envs[n] :
    LET v == envs[n][k]
    IN  IF d = 1 THEN TYPEOF(v) # "ENVSXP"
        ELSE /\ TYPEOF(v) # "CLOSXP"
             /\ TYPEOF(v) = "ENVSXP" => DepthIs(envs, v.id, d - 1)

\* the value a key path leads to from env n; unbound when it leaves the table
RECURSIVE Follow(_, _, _)
Follow(envs, n, path) ==
  LET v == Rf_findVarInFrame(envs, n, Head(path))
  IN  IF Len(path) = 1 THEN v
      ELSE IF TYPEOF(v) = "ENVSXP" THEN Follow(envs, v.id, Tail(path))
      ELSE R_UnboundValue

\* the key probed j-th (1-based) at depth d: the classes of S[d], then ANY
KeyAt(S, d, j) == IF j <= Len(S[d]) THEN S[d][j] ELSE ANY_sym

\* the key paths k_1..k_D, each k_d in S[d] or ANY, as tuples of probe indices
ProbePaths(S) ==
  {p \in [1..Len(S) -> 1..(Cardinality(Classes) + 1)] :
     \A d \in 1..Len(S) : p[d] <= Len(S[d]) + 1}

KeyPath(S, p) == [d \in 1..Len(S) |-> KeyAt(S, d, p[d])]

\* p comes before q in the depth-first order
Before(p, q) ==
  \E d \in DOMAIN p : p[d] < q[d] /\ \A e \in 1..(d - 1) : p[e] = q[e]

MethodPaths(envs, S) ==
  {p \in ProbePaths(S) : TYPEOF(Follow(envs, RootEnv, KeyPath(S, p))) = "CLOSXP"}

FirstMethod(envs, S) ==
  LET hits == MethodPaths(envs, S)
  IN  IF hits = {} THEN R_NilValue
      ELSE LET p == CHOOSE h \in hits : \A o \in hits : o = h \/ Before(h, o)
           IN  Follow(envs, RootEnv, KeyPath(S, p))

Walked == rpc \in {"exit", "done"}
LastProbe == probes[Len(probes)]

\* the frame-by-frame walk and the big-step method_rec / method_ agree
WalkAgrees ==
  /\ Walked => ret = method_rec(tbl, RootEnv, sig, 0)
  /\ rpc = "done" => result = method_(generic, tbl, sig, error_)

(***************************************************************************)
(* Claims settled under SpecRec                                            *)
(***************************************************************************)

\* C1: for a table of depth D = Len(sig), the walk returns the method of the
\* first key path, in depth-first order with the classes of S[i] in list
\* order and ANY after them, that leads to a method; it returns absent
\* exactly when no such key path leads to a method.
C1_FirstInDepthFirstOrder ==
  (Walked /\ Len(sig) >= 1 /\ DepthIs(tbl, RootEnv, Len(sig)))
    => /\ ret = FirstMethod(tbl, sig)
       /\ (ret = R_NilValue) <=> (MethodPaths(tbl, sig) = {})

\* a walk of a depth-2 table that went into a class child, came back with
\* nothing and found its method under ANY at the root
C1_Witness ==
  /\ Walked /\ Len(sig) = 2 /\ DepthIs(tbl, RootEnv, 2)
  /\ Len(sig[1]) >= 1 /\ Len(calls) >= 3
  /\ TYPEOF(ret) = "CLOSXP" /\ ret.id \div 10 = KeyIdx(ANY_sym)

\* C4: when the resolver found no method, method_ with error = TRUE ends in
\* method_lookup_error and returns nothing, and with error = FALSE returns
\* absent without calling it; a method found is returned, without the
\* reporter, for either value of error.
C4_ErrorFlag ==
  (rpc = "done" /\ calls # <<>>)
    => /\ (ret = R_NilValue /\ error_) => result = R7_method_lookup_error
       /\ (ret = R_NilValue /\ ~error_)
            => result = [outcome |-> "return", val |-> R_NilValue]
       /\ (ret # R_NilValue)
            => /\ TYPEOF(ret) = "CLOSXP"
               /\ result = [outcome |-> "return", val |-> ret]

\* a lookup with error = TRUE that probed the table and found nothing
C4_Witness ==
  /\ rpc = "done" /\ error_ /\ probes # <<>> /\ ret = R_NilValue
  /\ result.outcome = "method_lookup_error"

\* C8 as stated: a method is only ever returned from depth D-1.
C8_OnlyLeafDepth ==
  (Walked /\ TYPEOF(ret) = "CLOSXP") => LastProbe.itr = Len(sig) - 1

\* C8 amended: a method bound above the leaves is not ignored: the probe that
\* finds a method, at whatever depth, is the last probe of the walk and its
\* value is the walk's result; no probe is made at depth D or below; and when
\* the table has depth D the method is found at depth D-1.
C8_MethodReturnedWhereFound ==
  /\ \A j \in 1..Len(probes) :
       /\ probes[j].itr < Len(sig)
       /\ TYPEOF(probes[j].val) = "CLOSXP" => j = Len(probes)
  /\ (Walked /\ probes # <<>> /\ TYPEOF(LastProbe.val) = "CLOSXP")
       => ret = LastProbe.val
  /\ (Walked /\ TYPEOF(ret) = "CLOSXP")
       => /\ ret = LastProbe.val
          /\ (Len(sig) >= 1 /\ DepthIs(tbl, RootEnv, Len(sig)))
               => LastProbe.itr = Len(sig) - 1

\* a walk for two dispatch arguments that returned a method bound in the root
C8_Witness ==
  /\ Walked /\ Len(sig) = 2 /\ TYPEOF(ret) = "CLOSXP"
  /\ LastProbe.itr = 0 /\ LastProbe.table = RootEnv

StackShape ==
  /\ Len(stack) <= Len(sig) + 1
  /\ \A k \in 1..Len(stack) : stack[k].itr = k - 1
  /\ \A j \in 1..Len(calls) : calls[j].itr <= Len(sig)
  /\ \A j \in 1..Len(probes) : probes[j].itr < Len(sig)

\* C10: every walk ends; each recursive call has the index of its caller
\* plus one, at most Len(sig) calls are nested below the first, and a call
\* at index Len(sig) probes nothing.
C10_Terminates == []StackShape /\ <>(rpc = "done")

\* a call at index Len(sig) on the root environment, reached through a
\* binding that refers back to the root
C10_Witness ==
  /\ rpc = "walk" /\ Len(sig) = 2 /\ Len(stack) = 3
  /\ Top.itr = Len(sig) /\ Top.table = RootEnv

(***************************************************************************)
(* Reference notions for method_call_                                      *)
(***************************************************************************)
DispatchPositions == 0..(generic.n_dispatch - 1)
OtherPositions == generic.n_dispatch..(n_args - 1)
FrameIds == 1..Len(frames)

\* the promise bound to formal k (0-based) in the frame of call f
ArgOf(f, k) == frames[f].envir[k + 1]
Supplied(f, k) == PRCODE(prom, ArgOf(f, k)) # R_MissingArg
\* the loop of call f has dealt with formal k
Built(f, k) == k < frames[f].i
\* the loop of call f is over: dispatch_classes is handed to method_
HandedOver(f) == frames[f].i >= n_args
\* the resolver ran for call f
Resolved(f) == frames[f].res.outcome \in {"return", "method_lookup_error"}

Strip(v) == IF v.cls = "R7_super" THEN v.val ELSE v

\* what the expression of promise p stands for: a formal of the calling
\* method stands for the value that was passed, without any shim
RECURSIVE Denote(_, _)
Denote(heap, p) ==
  LET code == heap[p].code
  IN  IF code.k = "const" THEN code.v
      ELSE IF code.k = "sym" THEN Strip(Denote(heap, code.p))
      ELSE Super(Strip(Denote(heap, code.p)), code.c)

\* the key path of the method selected by call f
SelectedPath(f) ==
  [d \in 1..generic.n_dispatch |-> SelectedKey(frames[f].m, d - 1)]

(***************************************************************************)
(* Claims settled under Spec                                               *)
(***************************************************************************)

\* C2: the thunk of every supplied dispatch argument is forced exactly once,
\* by method_call_; its value slot then holds the value (for an argument that
\* is a super-shim, the shim's stored value), and a read of the argument by
\* the method body returns the stored value without forcing the thunk again.
C2_SingleEvaluation ==
  /\ \A p \in 1..Len(prom) : Len(prom[p].forces) <= 1
  /\ \A f \in FrameIds : \A k \in DispatchPositions :
       (Built(f, k) /\ Supplied(f, k))
         => /\ prom[ArgOf(f, k)].forces = <<"core">>
            /\ PRVALUE(prom, ArgOf(f, k)) = Strip(Denote(prom, ArgOf(f, k)))
            /\ PRVALUE(prom, ArgOf(f, k)).cls # "R7_super"
  /\ (lastRead.frame > 0 /\ lastRead.pos \in DispatchPositions
        /\ Supplied(lastRead.frame, lastRead.pos))
       => lastRead.val = PRVALUE(prom, ArgOf(lastRead.frame, lastRead.pos))

\* the method selected by a nested call has read the argument that was
\* passed as a super-shim
C2_Witness ==
  /\ lastRead.frame = 2
  /\ lastRead.pos = frames[2].sup.pos
  /\ PRCODE(prom, ArgOf(2, lastRead.pos)).k = "super"
  /\ lastRead.val \in Values
  /\ prom[ArgOf(2, lastRead.pos)].forces = <<"core">>
  /\ prom[ArgOf(1, lastRead.pos)].forces = <<"core">>

\* the class list of the super argument in the call that made super call f,
\* and the signature of that call with this class list replaced by cl
SuperList(f) == frames[f - 1].dispatch_classes[frames[f].sup.pos + 1]
SignatureWith(f, cl) ==
  [frames[f - 1].dispatch_classes EXCEPT ![frames[f].sup.pos + 1] = cl]
OthersKept(f) ==
  \A k \in DispatchPositions \ {frames[f].sup.pos} :
    frames[f].dispatch_classes[k + 1] = frames[f - 1].dispatch_classes[k + 1]
SuperResolved(f) == f >= 2 /\ Resolved(f) /\ OthersKept(f)

\* C3 as stated: the nested dispatch selects what resolve returns for the
\* signature in which C is removed from L.
C3_AsIfClassAbsent ==
  \A f \in FrameIds :
    SuperResolved(f)
      => frames[f].m = method_rec(tbl, RootEnv,
                         SignatureWith(f, Without(SuperList(f), frames[f].sup.cls)), 0)

\* C3 amended: the nested dispatch selects what resolve returns for the
\* signature in which L is replaced by its tail after C; that is the result
\* for L without C when the super argument is the first dispatch argument or
\* C is the first class of L.
C3_TailOfClassList ==
  \A f \in FrameIds :
    SuperResolved(f)
      => /\ frames[f].m = method_rec(tbl, RootEnv,
                            SignatureWith(f, TailAfter(SuperList(f), frames[f].sup.cls)), 0)
         /\ (frames[f].sup.pos = 0 \/ Head(SuperList(f)) = frames[f].sup.cls)
              => frames[f].m = method_rec(tbl, RootEnv,
                            SignatureWith(f, Without(SuperList(f), frames[f].sup.cls)), 0)

\* a super call on the second dispatch argument, relative to a class that is
\* not the first of its class list, that selected a method
C3_Witness ==
  /\ Len(frames) >= 2 /\ SuperResolved(2)
  /\ frames[2].sup.pos = 1
  /\ Head(SuperList(2)) # frames[2].sup.cls
  /\ TYPEOF(frames[2].m) = "CLOSXP"

\* C5: a dispatch argument that was not supplied is not forced, its class
\* list is the singleton MISSING, the bare parameter name takes its place in
\* the call, and the method selected is found under MISSING at that position
\* unless nothing is found under MISSING at that node, and only then under ANY.
C5_MissingKey ==
  \A f \in FrameIds : \A k \in DispatchPositions :
    (Built(f, k) /\ ~Supplied(f, k))
      => /\ prom[ArgOf(f, k)].forces = <<>>
         /\ PRVALUE(prom, ArgOf(f, k)) = R_UnboundValue
         /\ frames[f].dispatch_classes[k + 1] = <<"MISSING">>
         /\ frames[f].mcall[k + 1] = NameArg(formals[k + 1])
         /\ (Resolved(f) /\ TYPEOF(frames[f].m) = "CLOSXP")
              => /\ SelectedPath(f)[k + 1] \in {"MISSING", ANY_sym}
                 /\ SelectedPath(f)[k + 1] = ANY_sym
                      => \A q \in ProbePaths(frames[f].dispatch_classes) :
                           LET path == KeyPath(frames[f].dispatch_classes, q)
                           IN  (/\ path[k + 1] = "MISSING"
                                /\ \A d \in 1..k : path[d] = SelectedPath(f)[d])
                                 => TYPEOF(Follow(tbl, RootEnv, path)) # "CLOSXP"

\* the method under MISSING was selected where a method under ANY is bound
\* in the same node
C5_Witness ==
  /\ generic.n_dispatch = 2 /\ Resolved(1) /\ ~Supplied(1, 1) /\ Supplied(1, 0)
  /\ TYPEOF(frames[1].m) = "CLOSXP"
  /\ SelectedPath(1)[2] = "MISSING"
  /\ TYPEOF(Follow(tbl, RootEnv, <<SelectedPath(1)[1], ANY_sym>>)) = "CLOSXP"
  /\ frames[1].pc = "body"

\* C6: the core forces thunks only at dispatch positions, in increasing
\* formal position, all before method_ is called; it never forces a thunk at
\* another position, which it passes as the name tagged with itself, so a
\* non-dispatch argument is unevaluated when the method is entered.
C6_EvaluationOrder ==
  \A f \in FrameIds :
    LET evald == frames[f].evald
    IN  /\ \A a \in 1..Len(evald) :
             /\ evald[a] \in DispatchPositions
             /\ a > 1 => evald[a - 1] < evald[a]
        /\ (HandedOver(f) \/ frames[f].res.outcome # "none")
             => /\ HandedOver(f)
                /\ {evald[a] : a \in 1..Len(evald)}
                     = {k \in DispatchPositions : Supplied(f, k)}
        /\ \A k \in OtherPositions :
             /\ Built(f, k) => frames[f].mcall[k + 1] = TaggedNameArg(formals[k + 1])
             /\ \A a \in 1..Len(prom[ArgOf(f, k)].forces) :
                  prom[ArgOf(f, k)].forces[a] # "core"
             /\ (frames[f].pc \in {"build", "call"}
                   \/ (frames[f].pc = "body" /\ frames[f].nread = 0
                         /\ ~frames[f].supered))
                  => /\ prom[ArgOf(f, k)].forces = <<>>
                     /\ PRVALUE(prom, ArgOf(f, k)) = R_UnboundValue

\* a method entered with its supplied non-dispatch arguments unevaluated
\* after the one dispatch argument was forced
C6_Witness ==
  /\ generic.n_dispatch = 1 /\ frames[1].pc = "body" /\ frames[1].nread = 0
  /\ frames[1].evald = <<0>>
  /\ Supplied(1, 1) /\ Supplied(1, 2)
  /\ prom[ArgOf(1, 1)].forces = <<>> /\ prom[ArgOf(1, 2)].forces = <<>>

\* C7: the rebuilt call is evaluated only with a resolved method in its
\* callee slot; whenever the lookup yields absent, method_lookup_error is
\* raised and the call is not evaluated.
C7_OnlyResolvedMethodInvoked ==
  \A f \in FrameIds :
    /\ frames[f].evaluated => TYPEOF(frames[f].callee) = "CLOSXP"
    /\ (frames[f].res.outcome \in {"return", "method_lookup_error"}
          /\ frames[f].res.val = R_NilValue)
         => (err = "method_lookup_error" /\ ~frames[f].evaluated)

\* C9 as stated: every class list handed to the resolver is non-empty.
C9_NeverEmpty ==
  \A f \in FrameIds :
    HandedOver(f)
      => \A k \in DispatchPositions : frames[f].dispatch_classes[k + 1] # <<>>

\* C9 amended: the entry of a missing argument is the singleton MISSING, the
\* entry of an ordinary value is its non-empty obj_dispatch result, and the
\* entry of a super-shim is the shim's stored class list, which is empty
\* exactly when the shim was built relative to the last class of the value's
\* class list.
C9_ClassListEntries ==
  \A f \in FrameIds : \A k \in DispatchPositions :
    Built(f, k)
      => LET code == PRCODE(prom, ArgOf(f, k))
             dc == frames[f].dispatch_classes[k + 1]
             chain == R7_obj_dispatch(PRVALUE(prom, ArgOf(f, k)))
         IN  /\ code.k = "missing" => dc = <<"MISSING">>
             /\ code.k \in {"const", "sym"} => (dc = chain /\ dc # <<>>)
             /\ code.k = "super"
                  => /\ dc = Denote(prom, ArgOf(f, k)).cl
                     /\ (dc = <<>>) <=> (code.c = chain[Len(chain)])

\* a class list handed over for a shim built relative to the last class
C9_Witness ==
  /\ Len(frames) >= 2 /\ HandedOver(2)
  /\ PRCODE(prom, ArgOf(2, frames[2].sup.pos)).k = "super"
  /\ frames[2].dispatch_classes[frames[2].sup.pos + 1] = <<>>
  /\ \E k \in DispatchPositions : ~Supplied(2, k)

====
